---- MODULE Spec2Model ----
(***************************************************************************)
(* Import-time behaviour of the package pyspark.mllib                      *)
(* (python/pyspark/mllib/__init__.py): the NumPy version guard and the     *)
(* registration of the submodule `rand` under the public name `random`.    *)
(*                                                                         *)
(* Python strings that are compared with `<` are modelled as sequences of  *)
(* code points; strings that are only compared for equality or            *)
(* concatenated are TLA+ strings.  Module objects live in `heap`, indexed  *)
(* by their identity.                                                      *)
(***************************************************************************)
EXTENDS Integers, Sequences, FiniteSets, TLC

\* ---------------------------------------------------------------- bounds
\* Largest value of the major and of the minor component of the installed
\* NumPy version.
MaxComponent == 10
\* Largest value of each later component (patch level and beyond).
MaxPatch == 1
\* Largest number of dot-separated components of the NumPy version.
MaxParts == 3
\* Number of times the module body is executed (first import, then re-runs).
MaxRuns == 2

VARIABLES
    pc,             \* the next statement of the module body
    numpy_version,  \* numpy.version.version, a sequence of code points
    sys_modules,    \* sys.modules: dotted name -> module object identity
    heap,           \* module objects: identity -> [name, RandomRDDs_module]
    numpy,          \* the package global `numpy` (0: unbound)
    random,         \* the package global `random` (0: unbound)
    all_defined,    \* whether the package global __all__ is bound
    raised,         \* the exception the module body ended with, or NoError
    runs,           \* how many executions of the module body have started
    prev            \* sys.modules and heap when the current re-run started

vars == <<pc, numpy_version, sys_modules, heap, numpy, random, all_defined,
          raised, runs, prev>>

\* ------------------------------------------------------------- strings
\* The code point of the characters a version string is made of.
Ord(c) ==
    CASE c = "." -> 46
      [] c = "0" -> 48
      [] c = "1" -> 49
      [] c = "2" -> 50
      [] c = "3" -> 51
      [] c = "4" -> 52
      [] c = "5" -> 53
      [] c = "6" -> 54
      [] c = "7" -> 55
      [] c = "8" -> 56
      [] c = "9" -> 57

DigitChar(d) == Ord("0") + d

Min(a, b) == IF a <= b THEN a ELSE b

\* Python's `a < b` on str: lexicographic on code points, a proper prefix
\* being smaller.
StrLess(a, b) ==
    \E i \in 1..(Min(Len(a), Len(b)) + 1) :
        /\ \A j \in 1..(i - 1) : a[j] = b[j]
        /\ \/ i > Len(a) /\ i <= Len(b)
           \/ i <= Len(a) /\ i <= Len(b) /\ a[i] < b[i]

\* str(n) of a natural number.
RECURSIVE Decimal(_)
Decimal(n) ==
    IF n < 10 THEN <<DigitChar(n)>>
    ELSE Decimal(n \div 10) \o <<DigitChar(n % 10)>>

\* '.'.join(str(c) for c in comps): how NumPy spells a release version.
RECURSIVE FormatVersion(_)
FormatVersion(comps) ==
    IF Len(comps) = 1 THEN Decimal(comps[1])
    ELSE Decimal(comps[1]) \o <<Ord(".")>> \o FormatVersion(Tail(comps))

\* The release tuples the installed NumPy may have.
VersionTuples ==
    {t \in UNION {[1..n -> 0..MaxComponent] : n \in 1..MaxParts} :
        \A i \in 3..Len(t) : t[i] <= MaxPatch}

\* The literal the guard compares against.
MinVersion == <<Ord("1"), Ord("."), Ord("4")>>

\* The message of the exception the guard raises.
GuardMessage == "MLlib requires NumPy 1.4+"

NoError == "<no error>"

\* ----------------------------------------------------------------- names
\* __name__ of the package.
PackageName == "pyspark.mllib"

\* The dotted name the import system gives the submodule rand.
InternalKey == PackageName \o ".rand"

\* __name__ + '.random'
AliasKey == PackageName \o ".random"

\* The public name given to the submodule.
PublicName == "random"

\* RandomRDDs_module of a module object that defines no class RandomRDDs.
NoClass == "<no RandomRDDs>"

ModuleObject(name, cls) == [name |-> name, RandomRDDs_module |-> cls]

\* ------------------------------------------------------------ operations
\* The pairs (sys.modules, heap) a process can hold before the package is
\* imported: the standard library's own `random` and NumPy itself may or may
\* not have been imported already.
RECURSIVE Preloaded(_)
Preloaded(names) ==
    IF names = <<>> THEN [sys_modules |-> <<>>, heap |-> <<>>]
    ELSE LET rest == Preloaded(Tail(names))
             obj == Len(rest.heap) + 1
         IN  [sys_modules |-> (Head(names) :> obj) @@ rest.sys_modules,
              heap |-> Append(rest.heap, ModuleObject(Head(names), NoClass))]

PreloadChoices ==
    {<<>>, <<"numpy">>, <<"random">>, <<"numpy", "random">>}

Init ==
    /\ pc = "import_numpy"
    /\ numpy_version \in {FormatVersion(t) : t \in VersionTuples}
    /\ \E names \in PreloadChoices :
          /\ sys_modules = Preloaded(names).sys_modules
          /\ heap = Preloaded(names).heap
          /\ prev = Preloaded(names)
    /\ numpy = 0
    /\ random = 0
    /\ all_defined = FALSE
    /\ raised = NoError
    /\ runs = 1

\* The import system's lookup of a dotted name: the object sys.modules
\* holds, else a freshly loaded module object entered under that name.
Imported(mods, objs, key, cls) ==
    IF key \in DOMAIN mods
    THEN [obj |-> mods[key], sys_modules |-> mods, heap |-> objs]
    ELSE [obj |-> Len(objs) + 1,
          sys_modules |-> (key :> (Len(objs) + 1)) @@ mods,
          heap |-> Append(objs, ModuleObject(key, cls))]

\* line 25: import numpy
ImportNumpy ==
    /\ pc = "import_numpy"
    /\ LET r == Imported(sys_modules, heap, "numpy", NoClass)
       IN  /\ numpy' = r.obj
           /\ sys_modules' = r.sys_modules
           /\ heap' = r.heap
    /\ pc' = "guard"
    /\ UNCHANGED <<numpy_version, random, all_defined, raised, runs, prev>>

\* The guard written against the wrong literal, '1.3'.
GuardRaises_min13(version) ==
    StrLess(version, <<Ord("1"), Ord("."), Ord("3")>>)

\* line 26: numpy.version.version < '1.4'
GuardRaises(version) == StrLess(version, MinVersion)

\* The guard importing NumPy again instead of giving up when the version
\* is too old.
VersionGuard_retry ==
    /\ pc = "guard"
    /\ IF GuardRaises(numpy_version)
       THEN /\ raised' = GuardMessage
            /\ pc' = "import_numpy"
       ELSE /\ raised' = raised
            /\ pc' = "define_all"
    /\ UNCHANGED <<numpy_version, sys_modules, heap, numpy, random,
                   all_defined, runs, prev>>

\* lines 26-27: the version guard
VersionGuard ==
    /\ pc = "guard"
    /\ IF GuardRaises(numpy_version)
       THEN /\ raised' = GuardMessage
            /\ pc' = "failed"
       ELSE /\ raised' = raised
            /\ pc' = "define_all"
    /\ UNCHANGED <<numpy_version, sys_modules, heap, numpy, random,
                   all_defined, runs, prev>>

\* lines 29-30: __all__ = [...]
DefineAll ==
    /\ pc = "define_all"
    /\ all_defined' = TRUE
    /\ pc' = "import_rand"
    /\ UNCHANGED <<numpy_version, sys_modules, heap, numpy, random, raised,
                   runs, prev>>

\* lines 32-33: from . import rand as random
ImportRand ==
    /\ pc = "import_rand"
    /\ LET r == Imported(sys_modules, heap, InternalKey, InternalKey)
       IN  /\ random' = r.obj
           /\ sys_modules' = r.sys_modules
           /\ heap' = r.heap
    /\ pc' = "set_name"
    /\ UNCHANGED <<numpy_version, numpy, all_defined, raised, runs, prev>>

\* The label derived from the module's current label instead of being the
\* literal: random.__name__ = __name__ + '.' + random.__name__
SetName_relative ==
    /\ pc = "set_name"
    /\ heap' = [heap EXCEPT
                  ![random].name = PackageName \o "." \o heap[random].name]
    /\ pc' = "set_class_module"
    /\ UNCHANGED <<numpy_version, sys_modules, numpy, random, all_defined,
                   raised, runs, prev>>

\* line 34: random.__name__ = 'random'
SetName ==
    /\ pc = "set_name"
    /\ heap' = [heap EXCEPT ![random].name = PublicName]
    /\ pc' = "set_class_module"
    /\ UNCHANGED <<numpy_version, sys_modules, numpy, random, all_defined,
                   raised, runs, prev>>

\* The class labelled with the bare public name:
\* random.RandomRDDs.__module__ = 'random'
SetClassModule_bare ==
    /\ pc = "set_class_module"
    /\ heap' = [heap EXCEPT ![random].RandomRDDs_module = PublicName]
    /\ pc' = "register"
    /\ UNCHANGED <<numpy_version, sys_modules, numpy, random, all_defined,
                   raised, runs, prev>>

\* line 35: random.RandomRDDs.__module__ = __name__ + '.random'
SetClassModule ==
    /\ pc = "set_class_module"
    /\ heap' = [heap EXCEPT ![random].RandomRDDs_module = AliasKey]
    /\ pc' = "register"
    /\ UNCHANGED <<numpy_version, sys_modules, numpy, random, all_defined,
                   raised, runs, prev>>

\* A copy of the module object registered instead of the object itself.
RegisterAlias_copy ==
    /\ pc = "register"
    /\ heap' = Append(heap, heap[random])
    /\ sys_modules' = (AliasKey :> (Len(heap) + 1)) @@ sys_modules
    /\ pc' = "done"
    /\ UNCHANGED <<numpy_version, numpy, random, all_defined, raised, runs,
                   prev>>

\* The entry moved to the public path instead of added beside the internal
\* one: sys.modules[__name__ + '.random'] = sys.modules.pop(__name__ + '.rand')
RegisterAlias_move ==
    /\ pc = "register"
    /\ sys_modules' =
          [k \in (DOMAIN sys_modules \ {InternalKey}) \cup {AliasKey} |->
              IF k = AliasKey THEN random ELSE sys_modules[k]]
    /\ pc' = "done"
    /\ UNCHANGED <<numpy_version, heap, numpy, random, all_defined, raised,
                   runs, prev>>

\* The module registered under its own label as well:
\* sys.modules[random.__name__] = random
RegisterAlias_bare ==
    /\ pc = "register"
    /\ sys_modules' =
          (heap[random].name :> random) @@ (AliasKey :> random) @@ sys_modules
    /\ pc' = "done"
    /\ UNCHANGED <<numpy_version, heap, numpy, random, all_defined, raised,
                   runs, prev>>

\* line 36: sys.modules[__name__ + '.random'] = random
RegisterAlias ==
    /\ pc = "register"
    /\ sys_modules' = (AliasKey :> random) @@ sys_modules
    /\ pc' = "done"
    /\ UNCHANGED <<numpy_version, heap, numpy, random, all_defined, raised,
                   runs, prev>>

\* The module body is executed again: a reload of the imported package, or
\* the caller importing again after the guard raised.
Rerun ==
    /\ pc \in {"done", "failed"}
    /\ runs < MaxRuns
    /\ runs' = runs + 1
    /\ raised' = NoError
    /\ prev' = [sys_modules |-> sys_modules, heap |-> heap]
    /\ pc' = "import_numpy"
    /\ UNCHANGED <<numpy_version, sys_modules, heap, numpy, random,
                   all_defined>>

\* One statement of the module body.
Step ==
    \/ ImportNumpy
    \/ VersionGuard
    \/ DefineAll
    \/ ImportRand
    \/ SetName
    \/ SetClassModule
    \/ RegisterAlias

Next == Step \/ Rerun

Spec == Init /\ [][Next]_vars

\* The interpreter runs the module body to completion without suspension.
LiveSpec == Spec /\ WF_vars(Step)

\* ------------------------------------------------- numeric version order
\* int(s) of a string of decimal digits.
RECURSIVE ParseInt(_)
ParseInt(cs) ==
    IF cs = <<>> THEN 0
    ELSE ParseInt(SubSeq(cs, 1, Len(cs) - 1)) * 10
         + (cs[Len(cs)] - Ord("0"))

\* tuple(int(c) for c in s.split('.'))
RECURSIVE ParseVersion(_)
ParseVersion(s) ==
    LET dots == {i \in 1..Len(s) : s[i] = Ord(".")}
    IN  IF dots = {} THEN <<ParseInt(s)>>
        ELSE LET d == CHOOSE i \in dots : \A j \in dots : i <= j
             IN  <<ParseInt(SubSeq(s, 1, d - 1))>>
                 \o ParseVersion(SubSeq(s, d + 1, Len(s)))

\* Component-wise numeric order of two release tuples.
TupleLess(a, b) ==
    \E i \in 1..(Min(Len(a), Len(b)) + 1) :
        /\ \A j \in 1..(i - 1) : a[j] = b[j]
        /\ \/ i > Len(a) /\ i <= Len(b)
           \/ i <= Len(a) /\ i <= Len(b) /\ a[i] < b[i]

\* The installed NumPy is numerically older than the minimum 1.4.
NumericBelow ==
    TupleLess(ParseVersion(numpy_version), ParseVersion(MinVersion))

\* The module body has passed the guard statement.
PastGuard == pc \notin {"import_numpy", "guard"}

\* The public path and the internal path resolve to the one object bound
\* to `random`.
AliasOK ==
    /\ AliasKey \in DOMAIN sys_modules
    /\ InternalKey \in DOMAIN sys_modules
    /\ sys_modules[AliasKey] = sys_modules[InternalKey]
    /\ sys_modules[AliasKey] = random

\* ---------------------------------------------------------------- claims

\* C1: for every NumPy version numerically at or above 1.4 (1.4 itself,
\* 1.10.0, 10.0, ...) the module body passes the guard and raises nothing.
C1_SupportedVersionSucceeds ==
    ~NumericBelow => (pc # "failed" /\ raised = NoError)

\* C2: the guard's decision is that of the component-wise numeric
\* comparison against 1.4: once past the guard statement, the exception is
\* raised exactly when the version is numerically below 1.4.
C2_GuardIsNumeric ==
    PastGuard => ((raised = GuardMessage) <=> NumericBelow)

\* C3: for every version numerically below 1.4 the module body never gets
\* past the guard, fails with "MLlib requires NumPy 1.4+", and has then
\* added no alias entry, relabelled no module or class, and not bound
\* __all__.
C3_BelowMinimumFailsFirst ==
    NumericBelow =>
        /\ pc \in {"import_numpy", "guard", "failed"}
        /\ pc = "failed" => raised = GuardMessage
        /\ AliasKey \notin DOMAIN sys_modules
        /\ InternalKey \notin DOMAIN sys_modules
        /\ random = 0
        /\ \A o \in DOMAIN heap :
              /\ heap[o].RandomRDDs_module \in {NoClass, InternalKey}
              /\ heap[o].RandomRDDs_module = NoClass
                    => heap[o].name \in {"numpy", "random"}
        /\ ~all_defined

C3_Witness ==
    /\ pc = "failed"
    /\ numpy_version = FormatVersion(<<1, 3, 0>>)
    /\ raised = GuardMessage

\* C4: once the module body has completed, the public path resolves to the
\* very object the internal path and the global `random` denote, and that
\* stays so in every later state, re-runs included.
C4_AliasIsSameObject ==
    /\ [](pc = "done" => AliasOK)
    /\ [][AliasOK => AliasOK']_vars

C4_Witness ==
    /\ runs = 2
    /\ pc = "set_class_module"
    /\ AliasOK

\* C5: a second execution of the module body ends with the alias entry, the
\* submodule's label and the class's module label equal to what the first
\* execution left.
C5_RerunIdempotent ==
    (runs > 1 /\ pc = "done") =>
        /\ AliasKey \in DOMAIN prev.sys_modules
        /\ sys_modules[AliasKey] = prev.sys_modules[AliasKey]
        /\ heap[random].name = prev.heap[random].name
        /\ heap[random].RandomRDDs_module = prev.heap[random].RandomRDDs_module

C5_Witness ==
    /\ runs = 2
    /\ pc = "done"
    /\ sys_modules = prev.sys_modules
    /\ heap = prev.heap

\* C6: a completed module body has (a) labelled the submodule "random",
\* (b) labelled its class RandomRDDs with the public dotted path and
\* (c) entered the submodule under that path, so that the class's module
\* label resolves in the registry to the module defining the class.
C6_AllThreeRenames ==
    pc = "done" =>
        /\ heap[random].name = PublicName
        /\ heap[random].RandomRDDs_module = AliasKey
        /\ AliasKey \in DOMAIN sys_modules
        /\ sys_modules[AliasKey] = random
        /\ heap[random].RandomRDDs_module \in DOMAIN sys_modules
        /\ sys_modules[heap[random].RandomRDDs_module] = random

C6_Witness ==
    /\ pc = "done"
    /\ runs = 1
    /\ PublicName \in DOMAIN sys_modules
    /\ heap[sys_modules[AliasKey]].RandomRDDs_module = AliasKey

\* The failed state is entered only from the guard statement.
FailedOnlyFromGuard ==
    (pc' = "failed" /\ pc # "failed") => pc = "guard"

\* The guard statement is entered only from the statement before it.
GuardOnlyFromImport ==
    (pc' = "guard" /\ pc # "guard") => pc = "import_numpy"

\* The first statement is entered only by a new execution of the body.
StartOnlyByNewRun ==
    (pc' = "import_numpy" /\ pc # "import_numpy")
        => (pc \in {"done", "failed"} /\ runs' = runs + 1)

\* The failed state is left only by a new execution of the body.
FailedIsFinal ==
    pc = "failed" => (pc' = "failed" \/ runs' = runs + 1)

\* C7: every execution of the module body terminates, failed or done; the
\* guard's exception is the only error, the failed state is entered only
\* from the guard and left only by a new execution, the guard is entered
\* only from the statement before it, and done has the alias registered.
C7_RunsToCompletion ==
    /\ [](pc = "import_numpy" => <>(pc \in {"done", "failed"}))
    /\ [](raised \in {NoError, GuardMessage})
    /\ [](pc = "failed" <=> raised = GuardMessage)
    /\ [](pc = "done" =>
            AliasKey \in DOMAIN sys_modules /\ sys_modules[AliasKey] = random)
    /\ [][FailedOnlyFromGuard]_vars
    /\ [][GuardOnlyFromImport]_vars
    /\ [][StartOnlyByNewRun]_vars
    /\ [][FailedIsFinal]_vars

C7_Witness ==
    /\ pc = "failed"
    /\ runs = 2
    /\ raised = GuardMessage

\* No statement removes a registry entry or changes one other than the
\* alias entry.
EntriesKept ==
    \A k \in DOMAIN sys_modules :
        /\ k \in DOMAIN sys_modules'
        /\ k # AliasKey => sys_modules'[k] = sys_modules[k]

\* Lines 34-36 add no key but the public path.
AliasStatementsAddOnlyAlias ==
    pc \in {"set_name", "set_class_module", "register"}
        => (DOMAIN sys_modules' \ DOMAIN sys_modules) \subseteq {AliasKey}

\* On the first execution line 36 adds the public path as a new key.
FirstRegisterAddsAlias ==
    (pc = "register" /\ runs = 1)
        => /\ AliasKey \notin DOMAIN sys_modules
           /\ DOMAIN sys_modules' = DOMAIN sys_modules \cup {AliasKey}

\* C8: the statements after the import of rand add the single key of the
\* public path to the registry (new on the first execution) and no statement
\* changes or removes another entry; at completion the internal path is
\* still there and both paths resolve to one object.
C8_OneAdditionalPath ==
    /\ [][EntriesKept]_vars
    /\ [][AliasStatementsAddOnlyAlias]_vars
    /\ [][FirstRegisterAddsAlias]_vars
    /\ [](pc = "done" =>
            /\ InternalKey \in DOMAIN sys_modules
            /\ AliasKey \in DOMAIN sys_modules
            /\ sys_modules[InternalKey] = sys_modules[AliasKey])

C8_Witness ==
    /\ pc = "done"
    /\ runs = 1
    /\ DOMAIN sys_modules = {"numpy", "random", InternalKey, AliasKey}
    /\ sys_modules[InternalKey] = sys_modules[AliasKey]

\* No statement adds, removes or rebinds the registry entry "random".
BareKeyUntouched ==
    /\ (PublicName \in DOMAIN sys_modules')
          <=> (PublicName \in DOMAIN sys_modules)
    /\ PublicName \in DOMAIN sys_modules
          => sys_modules'[PublicName] = sys_modules[PublicName]

\* C9: a completed module body leaves the submodule labelled with the bare
\* name "random", which is not the key it is registered under, and no
\* statement writes the bare key "random": looking the module up by its own
\* label finds nothing or another module.
C9_LabelIsNotAKey ==
    /\ [](pc = "done" =>
            /\ heap[random].name = PublicName
            /\ heap[random].name # AliasKey
            /\ heap[random].name \in DOMAIN sys_modules
                  => sys_modules[heap[random].name] # random)
    /\ [][BareKeyUntouched]_vars

C9_Witness ==
    /\ pc = "done"
    /\ heap[random].name \in DOMAIN sys_modules
    /\ sys_modules[heap[random].name] # random
    /\ sys_modules[AliasKey] = random

====
